---- MODULE Spec2Model ----
(***************************************************************************)
(* Listings Enricher: the enrichListings pipeline                          *)
(* (src/React_Listings_Enricher.jsx, lines 46-109) and the state of the    *)
(* ListingsEnricher component that runs it (lines 123-144).                *)
(*                                                                         *)
(* A text is a sequence of one-character strings, so that normalizeApn,    *)
(* toLowerCase and Number are computed character by character.  A raw      *)
(* CSV/TSV text is held tokenized: a header line and the cells of each     *)
(* data line (the tokenizer itself is the Papa Parse library).             *)
(*                                                                         *)
(* A JavaScript value is a record [k, n, d, s]:                            *)
(*   k = "num"   the finite number n/d (d > 0, lowest terms)               *)
(*   k = "nan" | "inf" | "ninf" | "null" | "undef"                         *)
(*   k = "str"   the text s                                                *)
(* Finite numbers are exact rationals: IEEE rounding of a quotient and the *)
(* sign of zero are not modelled.                                          *)
(***************************************************************************)
EXTENDS Integers, Sequences, FiniteSets, TLC

VARIABLES listingsRaw, climateRaw, results, errors, call

vars == <<listingsRaw, climateRaw, results, errors, call>>

\* ------------------------------------------------------------ bounds

\* Data lines of a listings text drawn for the deduplication and sort cases.
MaxListings == 3

\* Data lines of a climate text drawn for the climate index cases.
MaxClimate == 2

\* ------------------------------------------------------------ JavaScript values

Null == [k |-> "null", n |-> 0, d |-> 1, s |-> <<>>]

Undefined == [k |-> "undef", n |-> 0, d |-> 1, s |-> <<>>]

NaN == [k |-> "nan", n |-> 0, d |-> 1, s |-> <<>>]

PosInf == [k |-> "inf", n |-> 0, d |-> 1, s |-> <<>>]

NegInf == [k |-> "ninf", n |-> 0, d |-> 1, s |-> <<>>]

Str(t) == [k |-> "str", n |-> 0, d |-> 1, s |-> t]

Abs(i) == IF i < 0 THEN -i ELSE i

RECURSIVE Gcd(_, _)
Gcd(a, b) == IF b = 0 THEN a ELSE Gcd(b, a % b)

\* The finite number n/d, for any d # 0, in lowest terms with d > 0.
Rat(n, d) ==
  LET sn == IF d < 0 THEN -n ELSE n
      sd == Abs(d)
      g  == Gcd(Abs(sn), sd)
  IN  [k |-> "num", n |-> sn \div g, d |-> sd \div g, s |-> <<>>]

Int2Num(i) == Rat(i, 1)

\* Number.isFinite
IsFinite(v) == v.k = "num"

\* a - b of two finite numbers; only its sign is used (the sort comparator).
Minus(a, b) == Rat(a.n * b.d - b.n * a.d, a.d * b.d)

\* a < b, the JavaScript comparison of two numbers (false when either is NaN).
LessThan(a, b) ==
  CASE a.k = "nan" \/ b.k = "nan" -> FALSE
    [] a.k = "num" /\ b.k = "num" -> a.n * b.d < b.n * a.d
    [] a.k = "ninf" -> b.k # "ninf"
    [] a.k = "inf" -> FALSE
    [] OTHER -> b.k = "inf"

\* a / b of two finite numbers, as IEEE division gives it.
Divide(a, b) ==
  IF b.n # 0 THEN Rat(a.n * b.d, a.d * b.n)
  ELSE IF a.n = 0 THEN NaN
  ELSE IF a.n > 0 THEN PosInf
  ELSE NegInf

\* Math.round: the integer nearest to x, a half rounded towards +Infinity;
\* NaN and the infinities are returned as they are.
MathRound(x) ==
  IF x.k = "num" THEN Int2Num((2 * x.n + x.d) \div (2 * x.d)) ELSE x

\* ------------------------------------------------------------ texts

DigitChars == <<"0", "1", "2", "3", "4", "5", "6", "7", "8", "9">>

UpperChars ==
  <<"A", "B", "C", "D", "E", "F", "G", "H", "I", "J", "K", "L", "M",
    "N", "O", "P", "Q", "R", "S", "T", "U", "V", "W", "X", "Y", "Z">>

LowerChars ==
  <<"a", "b", "c", "d", "e", "f", "g", "h", "i", "j", "k", "l", "m",
    "n", "o", "p", "q", "r", "s", "t", "u", "v", "w", "x", "y", "z">>

Range(f) == {f[i] : i \in DOMAIN f}

IsDigit(c) == c \in Range(DigitChars)

DigitVal(c) == (CHOOSE i \in DOMAIN DigitChars : DigitChars[i] = c) - 1

LowerChar(c) ==
  IF c \in Range(UpperChars)
  THEN LowerChars[CHOOSE i \in DOMAIN UpperChars : UpperChars[i] = c]
  ELSE c

\* String.prototype.toLowerCase
toLowerCase(t) == [i \in DOMAIN t |-> LowerChar(t[i])]

\* (apn || "").toString().replace(/\D+/g, ""): the digits of apn, in order.
normalizeApn(apn) == SelectSeq(apn, IsDigit)

RECURSIVE TrimLeft(_)
TrimLeft(t) == IF t # <<>> /\ Head(t) = " " THEN TrimLeft(Tail(t)) ELSE t

RECURSIVE TrimRight(_)
TrimRight(t) ==
  IF t # <<>> /\ t[Len(t)] = " " THEN TrimRight(SubSeq(t, 1, Len(t) - 1)) ELSE t

RECURSIVE DigitsVal(_)
DigitsVal(t) ==
  IF t = <<>> THEN 0
  ELSE 10 * DigitsVal(SubSeq(t, 1, Len(t) - 1)) + DigitVal(t[Len(t)])

RECURSIVE Pow10(_)
Pow10(e) == IF e = 0 THEN 1 ELSE 10 * Pow10(e - 1)

InfinityText == <<"I", "n", "f", "i", "n", "i", "t", "y">>

\* An unsigned decimal literal: digits with at most one ".", at least one digit.
IsDecimal(t) ==
  /\ \A i \in DOMAIN t : IsDigit(t[i]) \/ t[i] = "."
  /\ Cardinality({i \in DOMAIN t : t[i] = "."}) <= 1
  /\ \E i \in DOMAIN t : IsDigit(t[i])

\* Number(text), ECMAScript StringToNumber: white space is trimmed, the empty
\* text is 0, a signed decimal literal is its value, "Infinity" is infinite and
\* anything else is NaN.  Exponents and 0x/0o/0b literals are not modelled.
Number(t) ==
  LET u    == TrimRight(TrimLeft(t))
      sgn  == IF u # <<>> /\ Head(u) = "-" THEN -1 ELSE 1
      body == IF u # <<>> /\ Head(u) \in {"+", "-"} THEN Tail(u) ELSE u
      frac == Len(body) - (IF \E i \in DOMAIN body : body[i] = "."
                           THEN CHOOSE i \in DOMAIN body : body[i] = "."
                           ELSE Len(body))
  IN  IF u = <<>> THEN Int2Num(0)
      ELSE IF body = InfinityText THEN (IF sgn = 1 THEN PosInf ELSE NegInf)
      ELSE IF IsDecimal(body)
           THEN Rat(sgn * DigitsVal(SelectSeq(body, IsDigit)), Pow10(frac))
      ELSE NaN

\* num: Number(v) when that is finite, NaN otherwise.  v is a "str" value:
\* every cell of a parsed row is a string (dynamicTyping: false).
num(v) ==
  LET x == Number(v.s)
  IN  IF IsFinite(x) THEN x ELSE NaN

\* The truthiness of a value that is a string or undefined.
Truthy(v) == v.k = "str" /\ v.s # <<>>

\* ------------------------------------------------------------ parsing

Min(a, b) == IF a < b THEN a ELSE b

\* The empty text.
EmptyText == [header |-> <<>>, rows |-> <<>>]

\* A line that holds nothing is one empty cell; skipEmptyLines drops it.
IsEmptyLine(cells) == cells = << <<>> >>

\* One parsed row (header: true): the cells keyed by the header's names.  A
\* line with fewer cells than the header lacks the trailing keys; cells beyond
\* the header are not kept under a column name.
RowObject(header, cells) ==
  [c \in {header[j] : j \in 1..Min(Len(header), Len(cells))} |->
     cells[CHOOSE j \in 1..Len(header) : header[j] = c]]

\* parseCSV(text).data
parseCSV(text) ==
  LET lines == SelectSeq(text.rows, LAMBDA cells : ~IsEmptyLine(cells))
  IN  [i \in DOMAIN lines |-> RowObject(text.header, lines[i])]

\* ------------------------------------------------------------ schemas

allowedStatuses ==
  { <<"f", "o", "r", "_", "s", "a", "l", "e">>,
    <<"p", "e", "n", "d", "i", "n", "g">>,
    <<"s", "o", "l", "d">> }

ListingRequired == {"apn", "address", "zip", "price", "sqft", "status"}

ClimateRequired == {"apn"}

\* An optional key of a parsed row: its string, or undefined.
Optional(r, key) == IF key \in DOMAIN r THEN Str(r[key]) ELSE Undefined

\* An optional key with .default(""): its text, or the empty text.
Defaulted(r, key) == IF key \in DOMAIN r THEN r[key] ELSE <<>>

\* ListingSchema.parse(r) throws unless every required key is present.
ListingSchemaThrows(r) == ~(ListingRequired \subseteq DOMAIN r)

\* ListingSchema.parse(r) of a row it accepts.
ListingSchemaParse(r) ==
  [apn     |-> r["apn"],
   address |-> r["address"],
   city    |-> Defaulted(r, "city"),
   state   |-> Defaulted(r, "state"),
   zip     |-> r["zip"],
   price   |-> Str(r["price"]),
   beds    |-> Optional(r, "beds"),
   baths   |-> Optional(r, "baths"),
   sqft    |-> Str(r["sqft"]),
   status  |-> r["status"]]

ClimateSchemaThrows(r) == ~(ClimateRequired \subseteq DOMAIN r)

ClimateSchemaParse(r) ==
  [apn             |-> r["apn"],
   flood_zone      |-> Optional(r, "flood_zone"),
   avg_rain_inches |-> Optional(r, "avg_rain_inches")]

\* ------------------------------------------------------------ pipeline

\* Mutant of MapSet: a key the map holds keeps its value.
MapSetIfAbsent(m, key, v) ==
  [x \in DOMAIN m \cup {key} |-> IF x \in DOMAIN m THEN m[x] ELSE v]

\* Map.prototype.set on a map held as a function.
MapSet(m, key, v) == [x \in DOMAIN m \cup {key} |-> IF x = key THEN v ELSE m[x]]

\* The value stored for one climate row (lines 65-68).
ClimateEntry(c) ==
  [flood_zone      |-> IF Truthy(c.flood_zone) THEN c.flood_zone ELSE Null,
   avg_rain_inches |->
     IF c.avg_rain_inches.k \in {"undef", "null"} \/ c.avg_rain_inches = Str(<<>>)
     THEN Null
     ELSE num(c.avg_rain_inches)]

\* The loop of lines 62-69 from row i on: a later row overwrites an earlier one.
RECURSIVE ClimateIndexFrom(_, _, _)
ClimateIndexFrom(climateRows, i, index) ==
  IF i > Len(climateRows) THEN index
  ELSE LET c    == climateRows[i]
           napn == normalizeApn(c.apn)
       IN  ClimateIndexFrom(climateRows, i + 1,
             IF napn = <<>> THEN index ELSE MapSet(index, napn, ClimateEntry(c)))

ClimateIndex(climateRows) == ClimateIndexFrom(climateRows, 1, <<>>)

\* beds and baths (line 78): r.beds ? num(r.beds) : null
OptionalCount(v) == IF Truthy(v) THEN num(v) ELSE Null

\* The row built at line 78.
CleanRow(r) ==
  [apn     |-> r.apn,
   address |-> r.address,
   city    |-> r.city,
   state   |-> r.state,
   zip     |-> r.zip,
   napn    |-> normalizeApn(r.apn),
   price   |-> num(r.price),
   sqft    |-> num(r.sqft),
   beds    |-> OptionalCount(r.beds),
   baths   |-> OptionalCount(r.baths),
   status  |-> toLowerCase(r.status)]

\* Mutant of Keeps: the status is not tested.
KeepsAnyStatus(row) ==
  ~(\/ row.napn = <<>>
    \/ row.address = <<>>
    \/ row.zip = <<>>
    \/ ~IsFinite(row.price)
    \/ ~IsFinite(row.sqft))

\* The two tests of lines 79-80: the row is pushed when neither continues.
Keeps(row) ==
  /\ ~(\/ row.napn = <<>>
       \/ row.address = <<>>
       \/ row.zip = <<>>
       \/ ~IsFinite(row.price)
       \/ ~IsFinite(row.sqft))
  /\ row.status \in allowedStatuses

\* cleaned (lines 71-82)
Cleaned(listingRows) ==
  SelectSeq([i \in DOMAIN listingRows |-> CleanRow(listingRows[i])], Keeps)

\* Mutant of Replaces: a row of equal price replaces the one held.
ReplacesOnTie(r, existing) == ~LessThan(existing.price, r.price)

\* The test of line 87 for a key the map holds: r replaces existing.
Replaces(r, existing) == LessThan(r.price, existing.price)

\* bestByApn is a Map: it is held as the sequence of its values in insertion
\* order; setting a key it holds keeps the key's place.
BestSet(best, r) ==
  IF \E i \in DOMAIN best : best[i].napn = r.napn
  THEN LET i == CHOOSE j \in DOMAIN best : best[j].napn = r.napn
       IN  IF Replaces(r, best[i]) THEN [best EXCEPT ![i] = r] ELSE best
  ELSE Append(best, r)

\* The loop of lines 85-88 from row i on.
RECURSIVE BestByApnFrom(_, _, _)
BestByApnFrom(cleaned, i, best) ==
  IF i > Len(cleaned) THEN best
  ELSE BestByApnFrom(cleaned, i + 1, BestSet(best, cleaned[i]))

BestByApn(cleaned) == BestByApnFrom(cleaned, 1, <<>>)

NoClimate == [flood_zone |-> Null, avg_rain_inches |-> Null]

\* climateIndex.get(napn) || { flood_zone: null, avg_rain_inches: null }
ClimateOf(climateIndex, napn) ==
  IF napn \in DOMAIN climateIndex THEN climateIndex[napn] ELSE NoClimate

\* `${r.address}, ${r.city}, ${r.state} ${r.zip}`
FullAddress(r) ==
  r.address \o <<",", " ">> \o r.city \o <<",", " ">> \o r.state \o <<" ">> \o r.zip

\* Math.round(r.price / r.sqft)
PricePerSqft(r) == MathRound(Divide(r.price, r.sqft))

\* The row pushed at lines 93-104.
EnrichRow(r, climateIndex) ==
  LET climate == ClimateOf(climateIndex, r.napn)
  IN  [apn             |-> r.apn,
       full_address    |-> FullAddress(r),
       price           |-> r.price,
       beds            |-> r.beds,
       baths           |-> r.baths,
       sqft            |-> r.sqft,
       price_per_sqft  |-> PricePerSqft(r),
       status          |-> r.status,
       flood_zone      |-> climate.flood_zone,
       avg_rain_inches |-> climate.avg_rain_inches]

\* Mutant of Enriched: an inner join, rows without a climate entry left out.
EnrichedInnerJoin(best, climateIndex) ==
  LET matched == SelectSeq(best, LAMBDA r : r.napn \in DOMAIN climateIndex)
  IN  [i \in DOMAIN matched |-> EnrichRow(matched[i], climateIndex)]

\* enriched before the sort (lines 90-105)
Enriched(best, climateIndex) ==
  [i \in DOMAIN best |-> EnrichRow(best[i], climateIndex)]

\* Mutant of SortsAfter: rows of equal price change places.
SortsAfterOrEqual(a, b) == Minus(a.price, b.price).n >= 0

\* The comparator of line 107: a sorts after b when a.price - b.price > 0.
SortsAfter(a, b) == Minus(a.price, b.price).n > 0

\* x inserted after the last element it does not sort before.
InsertSorted(sorted, x) ==
  LET before == {i \in DOMAIN sorted : ~SortsAfter(sorted[i], x)}
      at     == IF before = {} THEN 0
                ELSE CHOOSE i \in before : \A j \in before : j <= i
  IN  SubSeq(sorted, 1, at) \o <<x>> \o SubSeq(sorted, at + 1, Len(sorted))

\* Array.prototype.sort with that comparator: a stable sort (ECMAScript 2019).
RECURSIVE ArraySortFrom(_, _, _)
ArraySortFrom(arr, i, sorted) ==
  IF i > Len(arr) THEN sorted
  ELSE ArraySortFrom(arr, i + 1, InsertSorted(sorted, arr[i]))

ArraySort(arr) == ArraySortFrom(arr, 1, <<>>)

\* The frame of a call of enrichListings that has not been made.
NoCall ==
  [state |-> "none", listingRows |-> <<>>, climateRows |-> <<>>,
   climateIndex |-> <<>>, cleaned |-> <<>>, bestByApn |-> <<>>,
   enriched |-> <<>>, ret |-> <<>>]

\* enrichListings throws when a schema rejects a row (lines 58-59).
EnrichThrows(lRaw, cRaw) ==
  \/ \E i \in DOMAIN parseCSV(lRaw) : ListingSchemaThrows(parseCSV(lRaw)[i])
  \/ \E i \in DOMAIN parseCSV(cRaw) : ClimateSchemaThrows(parseCSV(cRaw)[i])

\* enrichListings(lRaw, cRaw): the locals of the call and what it returns.
enrichListings(lRaw, cRaw) ==
  IF EnrichThrows(lRaw, cRaw) THEN [NoCall EXCEPT !.state = "threw"]
  ELSE
    LET listingsParsed == parseCSV(lRaw)
        climateParsed  == parseCSV(cRaw)
        listingRows    == [i \in DOMAIN listingsParsed |->
                             ListingSchemaParse(listingsParsed[i])]
        climateRows    == [i \in DOMAIN climateParsed |->
                             ClimateSchemaParse(climateParsed[i])]
        climateIndex   == ClimateIndex(climateRows)
        cleaned        == Cleaned(listingRows)
        bestByApn      == BestByApn(cleaned)
        enriched       == Enriched(bestByApn, climateIndex)
    IN  [state |-> "returned", listingRows |-> listingRows,
         climateRows |-> climateRows, climateIndex |-> climateIndex,
         cleaned |-> cleaned, bestByApn |-> bestByApn,
         enriched |-> enriched, ret |-> ArraySort(enriched)]

\* String(err) of the error a schema throws.
ErrorText == "ZodError"

\* ------------------------------------------------------------ demo data

DEMO_LISTINGS_TSV ==
  [header |-> <<"apn", "address", "city", "state", "zip", "price", "beds", "baths", "sqft", "status">>,
   rows |-> <<
     <<<<"1", "2", "-", "3", "4", "-", "5", "6", "7", "8", "9", "0">>,
       <<"1", "2", " ", "O", "a", "k", " ", "S", "t">>,
       <<"O", "r", "l", "a", "n", "d", "o">>,
       <<"F", "L">>,
       <<"3", "2", "8", "0", "1">>,
       <<"4", "5", "0", "0", "0", "0">>,
       <<"3">>,
       <<"2">>,
       <<"1", "6", "0", "0">>,
       <<"f", "o", "r", "_", "s", "a", "l", "e">>>>,
     <<<<"1", "2", "-", "3", "4", "-", "5", "6", "7", "8", "9", "0">>,
       <<"1", "2", " ", "O", "a", "k", " ", "S", "t">>,
       <<"O", "r", "l", "a", "n", "d", "o">>,
       <<"F", "L">>,
       <<"3", "2", "8", "0", "1">>,
       <<"4", "4", "0", "0", "0", "0">>,
       <<"3">>,
       <<"2">>,
       <<"1", "6", "0", "0">>,
       <<"f", "o", "r", "_", "s", "a", "l", "e">>>>,
     <<<<"5", "5", "-", "6", "6", "-", "7", "7", "7", "8", "8", "8">>,
       <<"9", "9", " ", "P", "i", "n", "e", " ", "A", "v", "e">>,
       <<"M", "i", "a", "m", "i">>,
       <<"F", "L">>,
       <<"3", "3", "1", "0", "1">>,
       <<"8", "0", "0", "0", "0", "0">>,
       <<"4">>,
       <<"3">>,
       <<"2", "2", "0", "0">>,
       <<"P", "e", "n", "d", "i", "n", "g">>>>,
     <<<<"9", "9", "-", "0", "0", "-", "1", "1", "1", "2", "2", "2">>,
       <<"7", " ", "L", "a", "k", "e", " ", "V", "i", "e", "w">>,
       <<"M", "i", "a", "m", "i">>,
       <<"F", "L">>,
       <<"3", "3", "1", "0", "1">>,
       <<"N", "a", "N">>,
       <<"2">>,
       <<"1">>,
       <<"9", "0", "0">>,
       <<"f", "o", "r", "_", "s", "a", "l", "e">>>>,
     <<<<"2", "2", "-", "3", "3", "-", "4", "4", "4", "5", "5", "5">>,
       <<"4", "2", " ", "E", "l", "m", " ", "R", "d">>,
       <<"T", "a", "m", "p", "a">>,
       <<"F", "L">>,
       <<"3", "3", "6", "0", "2">>,
       <<"5", "2", "0", "0", "0", "0">>,
       <<"3">>,
       <<"2", ".", "5">>,
       <<"1", "8", "0", "0">>,
       <<"s", "o", "l", "d">>>>,
     <<<<"7", "7", "-", "8", "8", "-", "9", "9", "9", "0", "0", "0">>,
       <<"1", " ", "B", "e", "a", "c", "h", " ", "D", "r">>,
       <<"M", "i", "a", "m", "i">>,
       <<"F", "L">>,
       <<"3", "3", "1", "0", "1">>,
       <<"1", "2", "0", "0", "0", "0", "0">>,
       <<"5">>,
       <<"4">>,
       <<"3", "5", "0", "0">>,
       <<"w", "i", "t", "h", "d", "r", "a", "w", "n">>>>,
     <<<<"1", "2", "3", " ", "U", "n", "k", "n", "o", "w", "n", " ", "R", "d">>,
       <<"O", "r", "l", "a", "n", "d", "o">>,
       <<"F", "L">>,
       <<"3", "2", "8", "0", "1">>,
       <<"3", "0", "0", "0", "0", "0">>,
       <<"2">>,
       <<"1">>,
       <<"9", "0", "0">>,
       <<"f", "o", "r", "_", "s", "a", "l", "e">>>>
   >>]

DEMO_CLIMATE_CSV ==
  [header |-> <<"apn", "flood_zone", "avg_rain_inches">>,
   rows |-> <<
     <<<<"1", "2", "3", "4", "5", "6", "7", "8", "9", "0">>,
       <<"A", "E">>,
       <<"5", "2", ".", "1">>>>,
     <<<<"5", "5", "6", "6", "7", "7", "7", "8", "8", "8">>,
       <<"X">>,
       <<"6", "1", ".", "3">>>>,
     <<<<"2", "2", "3", "3", "4", "4", "4", "5", "5", "5">>,
       <<"V", "E">>,
       <<"4", "9", ".", "0">>>>
   >>]

\* ------------------------------------------------------------ inputs drawn

ListingHeader ==
  <<"apn", "address", "city", "state", "zip", "price", "beds", "baths", "sqft", "status">>

ClimateHeader == <<"apn", "flood_zone", "avg_rain_inches">>

SoldText == <<"s", "o", "l", "d">>

\* One data line under ListingHeader.
ListingLine(apn, address, zip, price, beds, baths, sqft, status) ==
  <<apn, address, <<"T">>, <<"F", "L">>, zip, price, beds, baths, sqft, status>>

\* A line every filter keeps, but for its apn and price.
GoodLine(apn, price) ==
  ListingLine(apn, <<"a">>, <<"3">>, price, <<"3">>, <<"2">>, <<"2">>, SoldText)

ListingText(lines) == [header |-> ListingHeader, rows |-> lines]

ClimateText(lines) == [header |-> ClimateHeader, rows |-> lines]

SeqsUpTo(S, n) == UNION {[1..k -> S] : k \in 0..n}

\* seq without its i-th element.
Without(seq, i) == SubSeq(seq, 1, i - 1) \o SubSeq(seq, i + 1, Len(seq))

\* Listings that share and do not share a normalized APN, at equal and
\* different prices, some with a price no filter keeps.
DedupLines ==
  {GoodLine(apn, price) :
     apn \in {<<"7">>, <<"7", "-">>, <<"8">>, <<"9">>},
     price \in {<<"1">>, <<"2">>, <<"x">>}}

DedupTexts == {ListingText(lines) : lines \in SeqsUpTo(DedupLines, MaxListings)}

\* One listing, each filtered field at values the filter keeps and drops.
FilterTexts ==
  {ListingText(<<ListingLine(apn, address, zip, price, <<"3">>, <<>>, sqft, status)>>) :
     apn \in {<<>>, <<"-">>, <<"7", "-">>},
     address \in {<<>>, <<"a">>},
     zip \in {<<>>, <<"3">>},
     price \in {<<>>, <<" ">>, <<"x">>, <<"N", "a", "N">>, InfinityText, <<"5">>, <<"-", "5">>},
     sqft \in {<<>>, <<"0">>, <<"2">>, <<"x">>},
     status \in {SoldText, <<"P", "e", "n", "d", "i", "n", "g">>,
                 <<"w", "i", "t", "h", "d", "r", "a", "w", "n">>,
                 <<"F", "O", "R", "_", "S", "A", "L", "E">>}}

\* One listing, prices and areas whose quotient is and is not a half.
QuotientTexts ==
  {ListingText(<<ListingLine(<<"7">>, <<"a">>, <<"3">>, price, <<"3">>, <<"2">>, sqft, SoldText)>>) :
     price \in {<<"-", "5">>, <<"-", "3">>, <<"-", "1">>, <<"0">>, <<"1">>, <<"3">>,
                <<"5">>, <<"7">>, <<"2", ".", "5">>},
     sqft \in {<<"0">>, <<"2">>, <<"-", "2">>, <<"4">>, <<".", "5">>}}

CountCells == {<<>>, <<" ">>, <<"0">>, <<"3">>, <<"2", ".", "5">>, <<"x">>}

\* One listing, beds and baths at each kind of cell.
CountTexts ==
  {ListingText(<<ListingLine(<<"7">>, <<"a">>, <<"3">>, <<"5">>, beds, baths, <<"2">>, SoldText)>>) :
     beds \in CountCells, baths \in CountCells}

\* Listings texts of other shapes: a column left out, a line cut short, an
\* empty line.
ShapeTexts ==
  {[header |-> Without(ListingHeader, i),
    rows |-> <<Without(GoodLine(<<"7">>, <<"1">>), i)>>] : i \in DOMAIN ListingHeader}
  \cup {ListingText(<<GoodLine(<<"8">>, <<"2">>), SubSeq(GoodLine(<<"7">>, <<"1">>), 1, k)>>) :
          k \in 1..Len(ListingHeader) - 1}
  \cup {ListingText(<<GoodLine(<<"8">>, <<"2">>), << <<>> >>, GoodLine(<<"7">>, <<"1">>)>>)}

\* A climate line: an apn, then a flood zone, then an average rain, the
\* trailing cells present or not.
ClimateLines ==
  LET apns   == {<<>>, <<"7">>, <<"-", "7">>}
      floods == {<<>>, <<"A", "E">>, <<"X">>}
      rains  == {<<>>, <<"5">>, <<"x">>}
  IN  {<<apn>> : apn \in apns}
      \cup {<<apn, flood>> : apn \in apns, flood \in floods}
      \cup {<<apn, flood, rain>> : apn \in apns, flood \in {<<>>, <<"A", "E">>}, rain \in rains}

ClimateTexts == {ClimateText(lines) : lines \in SeqsUpTo(ClimateLines, MaxClimate)}

\* A climate text with no apn column.
ClimateNoApn == [header |-> <<"flood_zone">>, rows |-> << << <<"X">> >> >>]

\* A climate text with entries for the APNs 7 and 9.
ClimateA ==
  ClimateText(<< <<<<"7">>, <<"A", "E">>, <<"5">>>>, <<<<"9">>, <<"X">>, <<"6">>>> >>)

\* Two listings every filter keeps, for the APNs 7 and 8.
ListingsA == ListingText(<<GoodLine(<<"7", "-">>, <<"2">>), GoodLine(<<"8">>, <<"1">>)>>)

\* One listing every filter keeps.
ListingsB == ListingText(<<GoodLine(<<"9">>, <<"5">>)>>)

\* A listings text whose second line lacks its last cell.
ListingsShort ==
  ListingText(<<GoodLine(<<"8">>, <<"2">>), SubSeq(GoodLine(<<"7">>, <<"1">>), 1, 9)>>)

\* The pairs of texts enrichListings is applied to.
PipeInputs ==
  ((DedupTexts \cup FilterTexts \cup QuotientTexts \cup CountTexts \cup ShapeTexts)
     \X {ClimateA})
  \cup ({ListingsA} \X (ClimateTexts \cup {ClimateNoApn}))

\* The texts typed, pasted or uploaded in the component.
TypedListings == {EmptyText, ListingsA, ListingsB, ListingsShort}

TypedClimate == {EmptyText, ClimateA, ClimateNoApn}

\* ------------------------------------------------------------ the component

\* useState("") twice, useState([]) twice (lines 124-127).
Init ==
  /\ listingsRaw = EmptyText
  /\ climateRaw = EmptyText
  /\ results = <<>>
  /\ errors = <<>>
  /\ call = NoCall

\* The listings textarea's or file input's onChange.
setListingsRaw ==
  \E text \in TypedListings :
    /\ listingsRaw' = text
    /\ UNCHANGED <<climateRaw, results, errors, call>>

\* The climate textarea's or file input's onChange.
setClimateRaw ==
  \E text \in TypedClimate :
    /\ climateRaw' = text
    /\ UNCHANGED <<listingsRaw, results, errors, call>>

\* process (lines 131-139): the results and no error when enrichListings
\* returns, the error alone when it throws.
process ==
  LET frame == enrichListings(listingsRaw, climateRaw)
  IN  /\ call' = frame
      /\ IF frame.state = "returned"
         THEN results' = frame.ret /\ errors' = <<>>
         ELSE errors' = <<ErrorText>> /\ UNCHANGED results
      /\ UNCHANGED <<listingsRaw, climateRaw>>

\* loadDemo (line 143)
loadDemo ==
  /\ listingsRaw' = DEMO_LISTINGS_TSV
  /\ climateRaw' = DEMO_CLIMATE_CSV
  /\ results' = <<>>
  /\ errors' = <<>>
  /\ UNCHANGED call

\* clearAll (line 144); the two file inputs it empties hold no state here.
clearAll ==
  /\ listingsRaw' = EmptyText
  /\ climateRaw' = EmptyText
  /\ results' = <<>>
  /\ errors' = <<>>
  /\ UNCHANGED call

\* Download JSON and Copy JSON are disabled while results is empty (lines 177-178).
ExportEnabled == Len(results) > 0

Next == setListingsRaw \/ setClimateRaw \/ process \/ loadDemo \/ clearAll

Spec == Init /\ [][Next]_vars

\* enrichListings applied once to each pair of texts drawn.
PipeInit ==
  /\ \E p \in PipeInputs : listingsRaw = p[1] /\ climateRaw = p[2]
  /\ results = <<>>
  /\ errors = <<>>
  /\ call = NoCall

PipeNext == process

PipeSpec == PipeInit /\ [][PipeNext]_vars

\* ------------------------------------------------------------ properties

Returned == call.state = "returned"

\* The output row o carries the fields of the listing row r.
SameListing(o, r) ==
  /\ o.apn = r.apn
  /\ o.price = r.price
  /\ o.sqft = r.sqft
  /\ o.beds = r.beds
  /\ o.baths = r.baths
  /\ o.status = r.status
  /\ o.full_address = FullAddress(r)

\* The indices of the filter-passing listings whose normalized APN is napn.
Group(napn) == {i \in DOMAIN call.cleaned : call.cleaned[i].napn = napn}

\* The first of the lowest-priced listings of a group.
FirstMinimum(napn) ==
  CHOOSE i \in Group(napn) :
    \A j \in Group(napn) :
      /\ ~LessThan(call.cleaned[j].price, call.cleaned[i].price)
      /\ call.cleaned[j].price = call.cleaned[i].price => i <= j

\* The output rows whose normalized APN is napn.
OutputOf(napn) == {k \in DOMAIN call.ret : normalizeApn(call.ret[k].apn) = napn}

\* C1: the output holds at most one row per normalized APN (the digits of
\* apn), and that row is the filter-passing listing of lowest price among those
\* sharing the normalized APN, the first in input order when several share the
\* lowest price.
C1_LowestPriceFirstWins ==
  Returned =>
    /\ \A k \in DOMAIN call.ret :
         \E i \in DOMAIN call.cleaned : normalizeApn(call.ret[k].apn) = call.cleaned[i].napn
    /\ \A i \in DOMAIN call.cleaned :
         LET napn == call.cleaned[i].napn
         IN  /\ Cardinality(OutputOf(napn)) = 1
             /\ \A k \in OutputOf(napn) :
                  SameListing(call.ret[k], call.cleaned[FirstMinimum(napn)])

\* Three filter-passing listings share a normalized APN under different apn
\* texts; the second and third share the lowest price and the second is kept.
C1_Witness ==
  /\ Returned
  /\ Len(call.cleaned) = 3
  /\ Len(call.ret) = 1
  /\ call.cleaned[2].apn # call.cleaned[3].apn
  /\ call.cleaned[2].price = call.cleaned[3].price
  /\ LessThan(call.cleaned[2].price, call.cleaned[1].price)
  /\ call.ret[1].apn = call.cleaned[2].apn

\* What C2 says the filter keeps: a non-empty normalized APN, address and zip,
\* a finite coerced price and sqft, and a status that is allowed when compared
\* without regard to case.
PassesFilter(r) ==
  /\ normalizeApn(r.apn) # <<>>
  /\ r.address # <<>>
  /\ r.zip # <<>>
  /\ num(r.price).k = "num"
  /\ num(r.sqft).k = "num"
  /\ toLowerCase(r.status) \in allowedStatuses

\* The structurally valid listing rows C2 says survive, in input order.
Passing == SelectSeq(call.listingRows, PassesFilter)

\* C2: a structurally valid listing survives the filter stage if and only if
\* its normalized APN, address and zip are non-empty, its coerced price and
\* sqft are finite and its status, compared case-insensitively, is for_sale,
\* pending or sold; every output row satisfies these and has its status in
\* lower case.
C2_FilterKeepsExactly ==
  Returned =>
    /\ Len(call.cleaned) = Len(Passing)
    /\ \A i \in DOMAIN call.cleaned :
         /\ call.cleaned[i].apn = Passing[i].apn
         /\ call.cleaned[i].address = Passing[i].address
         /\ call.cleaned[i].zip = Passing[i].zip
         /\ call.cleaned[i].price = num(Passing[i].price)
         /\ call.cleaned[i].sqft = num(Passing[i].sqft)
         /\ call.cleaned[i].status = toLowerCase(Passing[i].status)
    /\ \A k \in DOMAIN call.ret :
         /\ normalizeApn(call.ret[k].apn) # <<>>
         /\ call.ret[k].price.k = "num"
         /\ call.ret[k].sqft.k = "num"
         /\ call.ret[k].status \in allowedStatuses
         /\ \E i \in DOMAIN call.cleaned :
              /\ SameListing(call.ret[k], call.cleaned[i])
              /\ call.cleaned[i].address # <<>>
              /\ call.cleaned[i].zip # <<>>

\* A listing of status "Pending" is kept and put out as "pending".
C2_Witness ==
  /\ Returned
  /\ Len(call.listingRows) = 1
  /\ call.listingRows[1].status = <<"P", "e", "n", "d", "i", "n", "g">>
  /\ Len(call.ret) = 1
  /\ call.ret[1].status = <<"p", "e", "n", "d", "i", "n", "g">>

\* A text C3 counts as unparsable: the empty text, or one that is no finite
\* number.
Unparsable(v) == v.s = <<>> \/ Number(v.s).k # "num"

\* C3: a listing whose price or sqft is unparsable (the text "NaN", non-numeric
\* text or the empty text) is not in the output, and the run raises no error.
C3_UnparsableExcluded ==
  call.state # "none" /\ ~EnrichThrows(listingsRaw, climateRaw) =>
    /\ Returned
    /\ \A i \in DOMAIN call.listingRows :
         LET r == call.listingRows[i]
         IN  Unparsable(r.price) \/ Unparsable(r.sqft) =>
               ~ \E k \in DOMAIN call.ret :
                   /\ call.ret[k].apn = r.apn
                   /\ call.ret[k].price = num(r.price)
                   /\ call.ret[k].sqft = num(r.sqft)

\* The index entry C4 speaks of, for an output row.
HasClimate(o) == normalizeApn(o.apn) \in DOMAIN call.climateIndex

\* C4: every listing that survives filtering and deduplication is in the
\* output exactly once, with the flood_zone and avg_rain_inches of the climate
\* index entry of its normalized APN, and with both null when there is none.
C4_LeftJoin ==
  Returned =>
    /\ Len(call.ret) = Len(call.bestByApn)
    /\ \A i \in DOMAIN call.bestByApn :
         /\ Cardinality({k \in DOMAIN call.ret :
                           SameListing(call.ret[k], call.bestByApn[i])}) = 1
    /\ \A k \in DOMAIN call.ret :
         LET o == call.ret[k]
         IN  IF HasClimate(o)
             THEN /\ o.flood_zone = call.climateIndex[normalizeApn(o.apn)].flood_zone
                  /\ o.avg_rain_inches =
                       call.climateIndex[normalizeApn(o.apn)].avg_rain_inches
             ELSE o.flood_zone = Null /\ o.avg_rain_inches = Null

\* The output holds a listing with no climate entry, both fields null, beside
\* one that carries the flood zone of its entry.
C4_Witness ==
  /\ Returned
  /\ \E k \in DOMAIN call.ret :
       /\ ~HasClimate(call.ret[k])
       /\ call.ret[k].flood_zone = Null
       /\ call.ret[k].avg_rain_inches = Null
  /\ \E k \in DOMAIN call.ret :
       /\ HasClimate(call.ret[k])
       /\ call.ret[k].flood_zone.k = "str"

\* The rows of a sequence of output rows whose price is p, in order.
AtPrice(rows, p) == SelectSeq(rows, LAMBDA o : o.price = p)

\* C5: the sequence returned is sorted non-decreasing by price, and rows of
\* equal price keep the relative order the enrichment stage produced.
C5_SortedStable ==
  Returned =>
    /\ Len(call.ret) = Len(call.enriched)
    /\ \A i, j \in DOMAIN call.ret :
         i < j => ~LessThan(call.ret[j].price, call.ret[i].price)
    /\ \A i \in DOMAIN call.enriched :
         AtPrice(call.ret, call.enriched[i].price)
           = AtPrice(call.enriched, call.enriched[i].price)

\* The enrichment stage produced a dearer row before two rows of equal price;
\* the two come first, in the order produced.
C5_Witness ==
  /\ Returned
  /\ Len(call.enriched) = 3
  /\ call.enriched[2].price = call.enriched[3].price
  /\ LessThan(call.enriched[2].price, call.enriched[1].price)
  /\ call.ret = <<call.enriched[2], call.enriched[3], call.enriched[1]>>

\* x rounded to the nearest integer, a half away from zero.
RoundHalfAway(x) ==
  IF x.n >= 0 THEN Int2Num((2 * x.n + x.d) \div (2 * x.d))
  ELSE Int2Num(-((2 * (-x.n) + x.d) \div (2 * x.d)))

\* C6: price_per_sqft is price / sqft rounded half away from zero, and
\* not-a-number, never infinite, for a listing whose sqft is 0.
C6_PricePerSqft ==
  Returned =>
    \A k \in DOMAIN call.ret :
      LET o == call.ret[k]
      IN  IF o.sqft.n = 0
          THEN o.price_per_sqft = NaN
          ELSE o.price_per_sqft = RoundHalfAway(Divide(o.price, o.sqft))

\* C7: while the error of a failed run is reported, it is the only error and
\* no results are shown, so the export actions are disabled.
C7_NoResultsWithError ==
  errors # <<>> => Len(errors) = 1 /\ results = <<>> /\ ~ExportEnabled

\* C8: avg_rain_inches of an output row is a finite number or null, never NaN.
C8_RainFiniteOrNull ==
  Returned =>
    \A k \in DOMAIN call.ret : call.ret[k].avg_rain_inches.k \in {"num", "null"}

\* A source value C9 counts as absent, empty or zero-like.
ZeroLike(v) == v.k = "undef" \/ v.s = <<>> \/ Number(v.s) = Int2Num(0)

\* beds or baths as C9 describes it.
CountAsClaimed(v) == IF ZeroLike(v) THEN Null ELSE num(v)

\* C9: beds and baths of an output row are each a finite number or null: null
\* when the source value was absent, empty or zero-like (the text "0"
\* included), and its numeric coercion otherwise.
C9_BedsBaths ==
  Returned =>
    /\ \A k \in DOMAIN call.ret :
         /\ call.ret[k].beds.k \in {"num", "null"}
         /\ call.ret[k].baths.k \in {"num", "null"}
    /\ Len(call.cleaned) = Len(Passing) =>
         \A i \in DOMAIN call.cleaned :
           /\ call.cleaned[i].beds = CountAsClaimed(Passing[i].beds)
           /\ call.cleaned[i].baths = CountAsClaimed(Passing[i].baths)

\* The climate rows whose normalized APN is napn.
ClimateMatches(napn) ==
  {i \in DOMAIN call.climateRows : normalizeApn(call.climateRows[i].apn) = napn}

Last(S) == CHOOSE i \in S : \A j \in S : j <= i

\* C10: the climate attributes joined onto a listing are those of the last
\* climate row, in input order, that shares its normalized APN; climate rows
\* whose normalized APN is empty are discarded and match no listing.
C10_ClimateLastWins ==
  Returned =>
    /\ <<>> \notin DOMAIN call.climateIndex
    /\ \A k \in DOMAIN call.ret :
         LET o    == call.ret[k]
             napn == normalizeApn(o.apn)
         IN  IF ClimateMatches(napn) = {}
             THEN o.flood_zone = Null /\ o.avg_rain_inches = Null
             ELSE LET c == ClimateEntry(call.climateRows[Last(ClimateMatches(napn))])
                  IN  /\ o.flood_zone = c.flood_zone
                      /\ o.avg_rain_inches = c.avg_rain_inches

\* Two climate rows share a listing's normalized APN under different apn
\* texts and name different flood zones; the listing carries the second's,
\* and a climate row of empty normalized APN is in no index entry.
C10_Witness ==
  /\ Returned
  /\ Len(call.climateRows) = 2
  /\ call.climateRows[1].apn # call.climateRows[2].apn
  /\ \E k \in DOMAIN call.ret :
       /\ ClimateMatches(normalizeApn(call.ret[k].apn)) = {1, 2}
       /\ Truthy(call.climateRows[1].flood_zone)
       /\ Truthy(call.climateRows[2].flood_zone)
       /\ call.climateRows[1].flood_zone # call.climateRows[2].flood_zone
       /\ call.ret[k].flood_zone = call.climateRows[2].flood_zone

====
